---- MODULE Spec2Model ----
(***************************************************************************)
(* The offset-graph loader of src/harmony/albankfile.py: the Reader, its   *)
(* register/resolve fixpoint, its queries and layout dump, and the record  *)
(* decoders (the unpack static methods), run against byte buffers; and the *)
(* container encoder of src/harmony/aifc.py and src/music.py: pstring,     *)
(* serialize_f80, the chunk serializers and the AifcWriter.                *)
(*                                                                         *)
(* A buffer is a sequence of bytes (0..255).  Python's integers are        *)
(* unbounded; the buffers enumerated below keep every decoded field within *)
(* 32 bits signed, and the one product the code computes (the codebook's   *)
(* 16*order*npredictors) is clamped where its exact value cannot matter.   *)
(* The 80-bit integers of serialize_f80 are sequences of bits.             *)
(***************************************************************************)
EXTENDS Integers, Sequences, FiniteSets, TLC

VARIABLES
    buffer,     \* the bytes handed to Reader(buffer)            (Reader.io)
    iopos,      \* Reader.io's stream position                   (Reader.io)
    items,      \* Reader.items: sequence of ReaderItem
    changed,    \* Reader.changed
    pc,         \* where the caller / resolve() stands
    idx,        \* resolve's position in "for item in self.items" (1-based)
    err,        \* the exception that ended the last operation, "" when none
    ret,        \* what the last register call returned (a Pointer) or None;
                \* for the encoder, the bytes the call returned or wrote
    op,         \* the last operation performed and what it did (observation)
    passRegs,   \* entries appended to items since the current pass began
    apiCalls,   \* calls the caller has made on the Reader it holds
    session,    \* the caller's scenario: how the Reader is driven; for
                \* the encoder, the function called and its argument
    registered  \* history: the (offset, type) pairs appended to Reader.items,
                \* in the order register appended them

vars ==
    <<buffer, iopos, items, changed, pc, idx, err, ret, op, passRegs, apiCalls,
      session, registered>>

---------------------------------------------------------------------------
(* Bounds of the enumeration *)

\* patched bytes take the values 0..MaxPatchVal (besides the record offsets)
MaxPatchVal == 2
\* a patched buffer is also cut short by 0, 4, .. 4*MaxCut bytes
MaxCut == 2
\* external Reader.register / Reader.resolve calls a caller makes in a session
MaxApiCalls == 2

---------------------------------------------------------------------------
(* Program constants *)

AL_ADPCM_WAVE == 0
AL_RAW16_WAVE == 1

None == [cls |-> "None"]

RecordTypes ==
    {"ALBankFile", "ALBank", "ALInstrument", "ALSound", "ALEnvelope",
     "ALKeyMap", "ALWaveTable", "ALADPCMBook", "ALADPCMloop"}

---------------------------------------------------------------------------
(* Input buffers *)

\* A well-formed bank file: one bank (percussion and slot 0 share one
\* instrument, slot 1 is empty), one instrument with two sounds that share
\* envelope, key map and wavetable, an ADPCM wavetable with loop and book.
\*   0 ALBankFile   8 ALBank   32 ALInstrument   56 ALSound   72 ALSound
\*  88 ALEnvelope 104 ALKeyMap 112 ALADPCMBook  136 ALADPCMloop 180 ALWaveTable
BaseBuffer ==
    <<  66, 49, 0, 1, 0, 0, 0, 8, 0, 2, 0, 0, 0, 0, 86, 34,
        0, 0, 0, 32, 0, 0, 0, 32, 0, 0, 0, 0, 0, 0, 0, 0,
        127, 64, 5, 0, 0, 0, 0, 0, 0, 0, 0, 0, 0, 200, 0, 2,
        0, 0, 0, 56, 0, 0, 0, 72, 0, 0, 0, 88, 0, 0, 0, 104,
        0, 0, 0, 180, 64, 127, 0, 0, 0, 0, 0, 88, 0, 0, 0, 104,
        0, 0, 0, 180, 32, 100, 0, 0, 0, 0, 0, 10, 0, 0, 0, 20,
        0, 0, 0, 30, 127, 100, 0, 0, 0, 127, 0, 127, 60, 253, 0, 0,
        0, 0, 0, 1, 0, 0, 0, 1, 0, 3, 255, 253, 0, 5, 255, 251,
        0, 7, 255, 249, 0, 9, 255, 247, 0, 0, 0, 4, 0, 0, 0, 40,
        0, 0, 0, 2, 0, 1, 0, 2, 0, 3, 0, 4, 0, 5, 0, 6,
        0, 7, 0, 8, 0, 9, 0, 10, 0, 11, 0, 12, 0, 13, 0, 14,
        0, 15, 0, 16, 0, 0, 1, 0, 0, 0, 0, 32, 0, 0, 0, 0,
        0, 0, 0, 136, 0, 0, 0, 112 >>

BaseOffsets == {8, 32, 56, 72, 88, 104, 112, 136, 180}

\* byte values written over one byte of the base buffer: small values, the
\* offsets of the base records, and 255 (which makes a signed field negative)
PatchVals == (0..MaxPatchVal) \cup BaseOffsets \cup {255}

\* 0-based positions of the most significant byte of the unsigned 32-bit
\* fields of the base layout; they keep values below 128, so that every
\* decoded field fits 32 bits signed
U32TopPos == {56, 60, 64, 72, 76, 80, 136, 140, 144, 180, 192, 196}

PatchValsAt(p) == IF p \in U32TopPos THEN {v \in PatchVals : v < 128} ELSE PatchVals

Patch(buf, p, v) == [buf EXCEPT ![p + 1] = v]

Truncate(buf, n) == SubSeq(buf, 1, n)

\* every prefix of the base buffer, and every one-byte patch of it, whole or
\* cut short by a few words
Buffers ==
    {Truncate(BaseBuffer, n) : n \in 0..Len(BaseBuffer)}
    \cup UNION {{Truncate(Patch(BaseBuffer, p, v), Len(BaseBuffer) - 4 * c) :
                    v \in PatchValsAt(p), c \in 0..MaxCut} :
                 p \in 0..(Len(BaseBuffer) - 1)}

---------------------------------------------------------------------------
(* struct formats and the module-level unpack(fmt, io) *)

Min(S) == CHOOSE x \in S : \A y \in S : x <= y

\* the element of a one-element set; {e(x) : x \in {v}} names an intermediate
\* result x (a local variable of the code) that is computed once
The(S) == CHOOSE x \in S : TRUE

\* struct.calcsize of one format character under ">" (no alignment)
FieldSize(c) ==
    CASE c = "h" -> 2
      [] c = "i" -> 4
      [] c = "I" -> 4
      [] c = "B" -> 1
      [] c = "b" -> 1

Signed(c) == c \in {"h", "i", "b"}

\* A format is a sequence of counted groups [n, c] ("12B", "1h"), or bad.
\* "n" repetitions of one format character, as f">{n}{c}" builds them; a
\* negative count gives a format struct rejects ("bad char in struct format")
Rep(n, c) ==
    IF n < 0 THEN [bad |-> TRUE, groups |-> <<>>]
    ELSE [bad |-> FALSE, groups |-> <<[n |-> n, c |-> c]>>]

Fmt(codes) == [bad |-> FALSE, groups |-> [i \in 1..Len(codes) |-> [n |-> 1, c |-> codes[i]]]]

FmtCat(f, g) == [bad |-> f.bad \/ g.bad, groups |-> f.groups \o g.groups]

\* struct.calcsize
RECURSIVE calcsize(_)
calcsize(groups) ==
    IF groups = <<>> THEN 0
    ELSE Head(groups).n * FieldSize(Head(groups).c) + calcsize(Tail(groups))

\* big-endian value of a byte string, two's complement when signed
RECURSIVE BigEndian(_, _)
BigEndian(bytes, acc) ==
    IF bytes = <<>> THEN acc ELSE BigEndian(Tail(bytes), acc * 256 + Head(bytes))

FieldValue(c, bytes) ==
    IF Signed(c) /\ Head(bytes) >= 128
    THEN BigEndian(Tail(bytes), Head(bytes) - 256)
    ELSE BigEndian(bytes, 0)

\* the values of one counted group, whose first byte is data[start + 1]
GroupFields(g, data, start) ==
    [j \in 1..g.n |->
        The({FieldValue(g.c, b) :
               b \in {SubSeq(data, start + (j - 1) * FieldSize(g.c) + 1,
                             start + j * FieldSize(g.c))}})]

\* the values of the groups of a format that starts at data[start + 1]
RECURSIVE FieldsFrom(_, _, _)
FieldsFrom(groups, data, start) ==
    IF groups = <<>> THEN <<>>
    ELSE The({GroupFields(g, data, start) \o FieldsFrom(rest, data, next) :
                g \in {Head(groups)}, rest \in {Tail(groups)},
                next \in {start + Head(groups).n * FieldSize(Head(groups).c)}})

\* struct.unpack: the values of the fields, in order
Fields(groups, data) ==
    The({FieldsFrom(gs, d, 0) : gs \in {groups}, d \in {data}})

\* BytesIO.read(size) at position pos: the bytes that are there, maybe fewer
ioread(buf, pos, size) ==
    IF pos >= Len(buf) THEN <<>>
    ELSE SubSeq(buf, pos + 1, IF pos + size > Len(buf) THEN Len(buf) ELSE pos + size)

\* unpack that zero-fills a short read instead of failing
unpack_ZeroFill(fmt, buf, pos) ==
    IF fmt.bad
    THEN [err |-> "struct.error", vals |-> <<>>, pos |-> pos, asked |-> 0]
    ELSE The({[err |-> "",
               vals |-> Fields(fmt.groups, data \o [i \in 1..(size - Len(data)) |-> 0]),
               pos |-> pos + Len(data), asked |-> size] :
                 size \in {calcsize(fmt.groups)},
                 data \in {ioread(buf, pos, calcsize(fmt.groups))}})

\* unpack(fmt, io): struct.error when the format is bad or the read is short
unpack(fmt, buf, pos) ==
    IF fmt.bad
    THEN [err |-> "struct.error", vals |-> <<>>, pos |-> pos, asked |-> 0]
    ELSE The({IF Len(data) # size
              THEN [err |-> "struct.error", vals |-> <<>>,
                    pos |-> pos + Len(data), asked |-> size]
              ELSE [err |-> "", vals |-> Fields(fmt.groups, data),
                    pos |-> pos + size, asked |-> size] :
                 size \in {calcsize(fmt.groups)},
                 data \in {ioread(buf, pos, calcsize(fmt.groups))}})

---------------------------------------------------------------------------
(* Reader.register *)

ReaderItem(offset, T) == [offset |-> offset, type |-> T, size |-> -1, value |-> None]

Pointer(offset) == [cls |-> "Pointer", offset |-> offset]

\* register deduplicating by the (offset, type) pair: an offset taken by
\* another type is appended again instead of refused
register_ByPair(its, chg, offset, T) ==
    IF \E i \in 1..Len(its) : its[i].offset = offset /\ its[i].type = T
    THEN [items |-> its, changed |-> chg, err |-> "", ret |-> Pointer(offset)]
    ELSE [items |-> Append(its, ReaderItem(offset, T)), changed |-> TRUE,
          err |-> "", ret |-> Pointer(offset)]

\* register without the scan of the existing entries
register_NoDedup(its, chg, offset, T) ==
    [items |-> Append(its, ReaderItem(offset, T)), changed |-> TRUE,
     err |-> "", ret |-> Pointer(offset)]

\* register that forgets to set the changed flag when it appends
register_NoFlag(its, chg, offset, T) ==
    LET hits == {i \in 1..Len(its) : its[i].offset = offset}
    IN IF hits # {}
       THEN IF its[Min(hits)].type = T
            THEN [items |-> its, changed |-> chg, err |-> "", ret |-> Pointer(offset)]
            ELSE [items |-> its, changed |-> chg,
                  err |-> "Exception: offset already taken", ret |-> None]
       ELSE [items |-> Append(its, ReaderItem(offset, T)), changed |-> chg,
             err |-> "", ret |-> Pointer(offset)]

\* register that sets the changed flag on every successful call
register_AlwaysFlag(its, chg, offset, T) ==
    LET hits == {i \in 1..Len(its) : its[i].offset = offset}
    IN IF hits # {}
       THEN IF its[Min(hits)].type = T
            THEN [items |-> its, changed |-> TRUE, err |-> "", ret |-> Pointer(offset)]
            ELSE [items |-> its, changed |-> chg,
                  err |-> "Exception: offset already taken", ret |-> None]
       ELSE [items |-> Append(its, ReaderItem(offset, T)), changed |-> TRUE,
             err |-> "", ret |-> Pointer(offset)]

\* register that hands out a Pointer to an offset taken by another type
register_IgnoreType(its, chg, offset, T) ==
    IF \E i \in 1..Len(its) : its[i].offset = offset
    THEN [items |-> its, changed |-> chg, err |-> "", ret |-> Pointer(offset)]
    ELSE [items |-> Append(its, ReaderItem(offset, T)), changed |-> TRUE,
          err |-> "", ret |-> Pointer(offset)]

\* Reader.register(offset, _type) on items "its" and changed flag "chg": the
\* first entry with that offset decides (same type: a Pointer, no change;
\* another type: the exception); no such entry: append and set changed
register(its, chg, offset, T) ==
    LET hits == {i \in 1..Len(its) : its[i].offset = offset}
    IN IF hits # {}
       THEN IF its[Min(hits)].type = T
            THEN [items |-> its, changed |-> chg, err |-> "", ret |-> Pointer(offset)]
            ELSE [items |-> its, changed |-> chg,
                  err |-> "Exception: offset already taken", ret |-> None]
       ELSE [items |-> Append(its, ReaderItem(offset, T)), changed |-> TRUE,
             err |-> "", ret |-> Pointer(offset)]

\* the types under which an offset is registered
TypesAt(its, offset) == {its[i].type : i \in {j \in 1..Len(its) : its[j].offset = offset}}

\* Reader.get(offset): the value of the first entry at that offset, else None
get(its, offset) ==
    LET hits == {i \in 1..Len(its) : its[i].offset = offset}
    IN IF hits # {} THEN its[Min(hits)].value ELSE None

\* Reader.all(_type): the values of the entries of that type, in list order
all(its, T) ==
    LET out == SelectSeq(its, LAMBDA item : item.type = T)
    IN [i \in 1..Len(out) |-> out[i].value]

\* the Reader as a decoder sees it, with the register calls the decoder made
St0(its, chg) == [items |-> its, changed |-> chg, err |-> "", calls |-> <<>>]

\* one reader.register(call[1], call[2]) of a decoder, logged in st.calls
registerOne(st, call) ==
    The({[items |-> r.items, changed |-> r.changed, err |-> r.err,
          calls |-> Append(st.calls,
                      [offset |-> call[1], type |-> call[2], raised |-> r.err # "",
                       appended |-> Len(r.items) > Len(st.items)])] :
           r \in {register(st.items, st.changed, call[1], call[2])}})

\* the register calls of one decoder, in program order; the first exception
\* ends the decoder, so the later calls are not made.  The calls of the first
\* half of the list are made, then those of the second half.
RECURSIVE registerAll(_, _)
registerAll(st, regs) ==
    IF regs = <<>> \/ st.err # "" THEN st
    ELSE IF Len(regs) = 1
    THEN The({registerOne(s, call) : s \in {st}, call \in {regs[1]}})
    ELSE The({The({registerAll(mid, back) : mid \in {registerAll(s, front)}}) :
                s \in {st},
                front \in {SubSeq(regs, 1, Len(regs) \div 2)},
                back \in {SubSeq(regs, Len(regs) \div 2 + 1, Len(regs))}})

\* how a decoder ends: by an exception, or by returning its record
Raise(e, pos, st, reads) ==
    [err |-> e, value |-> None, pos |-> pos, items |-> st.items,
     changed |-> st.changed, calls |-> st.calls, reads |-> reads]

Return(value, pos, st, reads) ==
    IF st.err # "" THEN Raise(st.err, pos, st, reads)
    ELSE [err |-> "", value |-> value, pos |-> pos, items |-> st.items,
          changed |-> st.changed, calls |-> st.calls, reads |-> reads]

---------------------------------------------------------------------------
(* The record decoders.  Each takes the buffer, the offset the stream was  *)
(* positioned at, and the Reader's items and changed flag; "reads" lists   *)
(* the byte counts of its unpack calls.                                    *)

ALEnvelope_unpack(buf, off, its, chg) ==
    The({IF u.err # "" THEN Raise(u.err, u.pos, St0(its, chg), <<u.asked>>)
         ELSE Return([cls |-> "ALEnvelope", attackTime |-> u.vals[1],
                      decayTime |-> u.vals[2], releaseTime |-> u.vals[3],
                      attackVolume |-> u.vals[4], decayVolume |-> u.vals[5]],
                     u.pos, St0(its, chg), <<u.asked>>) :
           u \in {unpack(Fmt(<<"i", "i", "i", "B", "B">>), buf, off)}})

ALKeyMap_unpack(buf, off, its, chg) ==
    The({IF u.err # "" THEN Raise(u.err, u.pos, St0(its, chg), <<u.asked>>)
         ELSE Return([cls |-> "ALKeyMap", velocityMin |-> u.vals[1],
                      velocityMax |-> u.vals[2], keyMin |-> u.vals[3],
                      keyMax |-> u.vals[4], keyBase |-> u.vals[5],
                      detune |-> u.vals[6]],
                     u.pos, St0(its, chg), <<u.asked>>) :
           u \in {unpack(FmtCat(Rep(5, "B"), Rep(1, "b")), buf, off)}})

\* len(range(0, 16 * order * npredictors, 2)), clamped to cap + 1: any count
\* above cap (the 16-bit reads the buffer still holds) ends in the same short
\* read, and the clamp keeps the product within TLC's 32-bit integers
BookRange(order, np, cap) ==
    LET ao == IF order < 0 THEN -order ELSE order
        an == IF np < 0 THEN -np ELSE np
    IN IF order = 0 \/ np = 0 \/ (order < 0) # (np < 0) THEN 0
       ELSE IF ao > cap \/ an > cap \/ 8 * ao * an > cap THEN cap + 1
       ELSE 8 * ao * an

\* the loop of ALADPCMBook.unpack: n reads of one s16 from position pos
BookLoop(buf, pos, n, order, np, its, chg) ==
    IF 2 * n > Len(buf) - pos
    THEN Raise("struct.error", Len(buf), St0(its, chg), <<8>> \o [i \in 1..n |-> 2])
    ELSE Return([cls |-> "ALADPCMBook", order |-> order, npredictors |-> np,
                 book |-> Fields(Rep(n, "h").groups, ioread(buf, pos, 2 * n))],
                pos + 2 * n, St0(its, chg), <<8>> \o [i \in 1..n |-> 2])

ALADPCMBook_unpack(buf, off, its, chg) ==
    The({IF u.err # "" THEN Raise(u.err, u.pos, St0(its, chg), <<u.asked>>)
         ELSE BookLoop(buf, u.pos,
                       BookRange(u.vals[1], u.vals[2], (Len(buf) - u.pos) \div 2),
                       u.vals[1], u.vals[2], its, chg) :
           u \in {unpack(Fmt(<<"i", "i">>), buf, off)}})

ALADPCMloop_unpack(buf, off, its, chg) ==
    The({IF u.err # "" THEN Raise(u.err, u.pos, St0(its, chg), <<u.asked>>)
         ELSE The({IF w.err # ""
                   THEN Raise(w.err, w.pos, St0(its, chg), <<u.asked, w.asked>>)
                   ELSE Return([cls |-> "ALADPCMloop", start |-> u.vals[1],
                                end |-> u.vals[2], count |-> u.vals[3],
                                state |-> w.vals],
                               w.pos, St0(its, chg), <<u.asked, w.asked>>) :
                     w \in {unpack(Rep(16, "h"), buf, u.pos)}}) :
           u \in {unpack(Fmt(<<"I", "I", "I">>), buf, off)}})

\* ALWaveTable.unpack after the header u, for type AL_ADPCM_WAVE
WaveTableADPCM(u, buf, its, chg) ==
    The({IF w.err # ""
         THEN Raise(w.err, w.pos, St0(its, chg), <<u.asked, w.asked>>)
         ELSE The({Return([cls |-> "ALWaveTable", base |-> u.vals[1],
                           len |-> u.vals[2], type |-> u.vals[3],
                           flags |-> u.vals[4],
                           loop |-> IF w.vals[1] # 0 THEN Pointer(w.vals[1]) ELSE None,
                           book |-> IF w.vals[2] # 0 THEN Pointer(w.vals[2]) ELSE None],
                          w.pos, st, <<u.asked, w.asked>>) :
                     st \in {registerAll(St0(its, chg),
                               (IF w.vals[1] # 0
                                THEN << <<w.vals[1], "ALADPCMloop">> >> ELSE <<>>)
                               \o (IF w.vals[2] # 0
                                   THEN << <<w.vals[2], "ALADPCMBook">> >> ELSE <<>>))}}) :
           w \in {unpack(Rep(2, "I"), buf, u.pos)}})

\* ALWaveTable.unpack after the header u, for type AL_RAW16_WAVE
WaveTableRaw16(u, buf, its, chg) ==
    The({IF w.err # ""
         THEN Raise(w.err, w.pos, St0(its, chg), <<u.asked, w.asked>>)
         ELSE Raise("AssertionError", w.pos, St0(its, chg), <<u.asked, w.asked>>) :
           w \in {unpack(Fmt(<<"I">>), buf, u.pos)}})

ALWaveTable_unpack(buf, off, its, chg) ==
    The({IF u.err # "" THEN Raise(u.err, u.pos, St0(its, chg), <<u.asked>>)
         ELSE IF u.vals[5] # 0 \/ u.vals[6] # 0
         THEN Raise("AssertionError", u.pos, St0(its, chg), <<u.asked>>)
         ELSE IF u.vals[3] = AL_ADPCM_WAVE THEN WaveTableADPCM(u, buf, its, chg)
         ELSE IF u.vals[3] = AL_RAW16_WAVE THEN WaveTableRaw16(u, buf, its, chg)
         ELSE Raise("Exception: Unknown type", u.pos, St0(its, chg), <<u.asked>>) :
           u \in {unpack(FmtCat(Fmt(<<"I", "i">>), Rep(4, "B")), buf, off)}})

ALSound_unpack(buf, off, its, chg) ==
    The({IF u.err # "" THEN Raise(u.err, u.pos, St0(its, chg), <<u.asked>>)
         ELSE The({Return([cls |-> "ALSound", envelope |-> u.vals[1],
                           keyMap |-> u.vals[2], wavetable |-> u.vals[3],
                           samplePan |-> u.vals[4], sampleVolume |-> u.vals[5],
                           flags |-> u.vals[6]],
                          u.pos, st, <<u.asked>>) :
                     st \in {registerAll(St0(its, chg),
                               << <<u.vals[3], "ALWaveTable">>,
                                  <<u.vals[1], "ALEnvelope">>,
                                  <<u.vals[2], "ALKeyMap">> >>)}}) :
           u \in {unpack(Fmt(<<"I", "I", "I", "B", "B", "B">>), buf, off)}})

\* ALInstrument.unpack after the 16-byte prefix u
InstrumentSounds(u, buf, its, chg) ==
    The({IF w.err # ""
         THEN Raise(w.err, w.pos, St0(its, chg), <<u.asked, w.asked>>)
         ELSE The({Return([cls |-> "ALInstrument", volume |-> u.vals[1],
                           pan |-> u.vals[2], priority |-> u.vals[3],
                           flags |-> u.vals[4], tremType |-> u.vals[5],
                           tremRate |-> u.vals[6], tremDepth |-> u.vals[7],
                           tremDelay |-> u.vals[8], vibType |-> u.vals[9],
                           vibRate |-> u.vals[10], vibDepth |-> u.vals[11],
                           vibDelay |-> u.vals[12], bendRange |-> u.vals[13],
                           soundCount |-> u.vals[14], soundArray |-> w.vals],
                          w.pos, st, <<u.asked, w.asked>>) :
                     st \in {registerAll(St0(its, chg),
                               [i \in 1..Len(w.vals) |-> <<w.vals[i], "ALSound">>])}}) :
           w \in {unpack(Rep(u.vals[14], "i"), buf, u.pos)}})

ALInstrument_unpack(buf, off, its, chg) ==
    The({IF u.err # "" THEN Raise(u.err, u.pos, St0(its, chg), <<u.asked>>)
         ELSE InstrumentSounds(u, buf, its, chg) :
           u \in {unpack(FmtCat(Rep(12, "B"), Fmt(<<"h", "h">>)), buf, off)}})

\* the entries of a sequence that are not zero, in order
\* the offsets with the zero ones left in
NonZero_KeepAll(s) == s

NonZero(s) == SelectSeq(s, LAMBDA offset : offset # 0)

\* ALBank.unpack after the 8-byte prefix u
BankInstruments(u, buf, its, chg) ==
    The({IF w.err # ""
         THEN Raise(w.err, w.pos, St0(its, chg), <<u.asked, w.asked>>)
         ELSE The({Return([cls |-> "ALBank", instCount |-> u.vals[1],
                           flags |-> u.vals[2], pad |-> u.vals[3],
                           sampleRate |-> u.vals[4], percussion |-> w.vals[1],
                           instArray |-> Tail(w.vals)],
                          w.pos, st, <<u.asked, w.asked>>) :
                     st \in {The({registerAll(St0(its, chg),
                                    [i \in 1..Len(regs) |-> <<regs[i], "ALInstrument">>]) :
                                  regs \in {NonZero(w.vals)}})}}) :
           w \in {unpack(FmtCat(Fmt(<<"i">>), Rep(u.vals[1], "i")), buf, u.pos)}})

ALBank_unpack(buf, off, its, chg) ==
    The({IF u.err # "" THEN Raise(u.err, u.pos, St0(its, chg), <<u.asked>>)
         ELSE BankInstruments(u, buf, its, chg) :
           u \in {unpack(Fmt(<<"h", "B", "B", "i">>), buf, off)}})

\* ALBankFile.unpack after the 4-byte prefix u
BankFileBanks(u, buf, its, chg) ==
    The({IF w.err # ""
         THEN Raise(w.err, w.pos, St0(its, chg), <<u.asked, w.asked>>)
         ELSE The({Return([cls |-> "ALBankFile", revision |-> u.vals[1],
                           bankCount |-> u.vals[2], bankArray |-> w.vals],
                          w.pos, st, <<u.asked, w.asked>>) :
                     st \in {registerAll(St0(its, chg),
                               [i \in 1..Len(w.vals) |-> <<w.vals[i], "ALBank">>])}}) :
           w \in {unpack(Rep(u.vals[2], "i"), buf, u.pos)}})

ALBankFile_unpack(buf, off, its, chg) ==
    The({IF u.err # "" THEN Raise(u.err, u.pos, St0(its, chg), <<u.asked>>)
         ELSE BankFileBanks(u, buf, its, chg) :
           u \in {unpack(Fmt(<<"h", "h">>), buf, off)}})

\* getattr(item.type, "unpack", None), called
Decode(T, buf, off, its, chg) ==
    CASE T = "ALBankFile"   -> ALBankFile_unpack(buf, off, its, chg)
      [] T = "ALBank"       -> ALBank_unpack(buf, off, its, chg)
      [] T = "ALInstrument" -> ALInstrument_unpack(buf, off, its, chg)
      [] T = "ALSound"      -> ALSound_unpack(buf, off, its, chg)
      [] T = "ALEnvelope"   -> ALEnvelope_unpack(buf, off, its, chg)
      [] T = "ALKeyMap"     -> ALKeyMap_unpack(buf, off, its, chg)
      [] T = "ALWaveTable"  -> ALWaveTable_unpack(buf, off, its, chg)
      [] T = "ALADPCMBook"  -> ALADPCMBook_unpack(buf, off, its, chg)
      [] T = "ALADPCMloop"  -> ALADPCMloop_unpack(buf, off, its, chg)

---------------------------------------------------------------------------
(* Scenarios.  A load session is read_file(buffer); a direct session is a  *)
(* caller that constructs Reader(buffer) itself.  In either, the caller    *)
(* may go on to call register and resolve on the Reader it holds, at most  *)
(* session.budget times.                                                   *)

\* offsets and types a caller registers by hand ("object" has no unpack)
ApiOffsets == {0, 8, 56}
ApiTypes == {"ALBankFile", "ALBank", "ALSound", "object"}

Scenarios ==
    {[load |-> TRUE, budget |-> 0, buffer |-> b] : b \in Buffers}
    \cup {[load |-> l, budget |-> MaxApiCalls, buffer |-> BaseBuffer] : l \in BOOLEAN}

\* Reader.__init__ (and, for a load session, read_file's first line)
Init ==
    /\ \E s \in Scenarios :
          /\ session = [load |-> s.load, budget |-> s.budget]
          /\ buffer = s.buffer
    /\ iopos = 0
    /\ items = <<>>
    /\ changed = FALSE
    /\ pc = IF session.load THEN "constructed" ELSE "idle"
    /\ idx = 0
    /\ err = ""
    /\ ret = None
    /\ op = [name |-> "init"]
    /\ passRegs = 0
    /\ apiCalls = 0
    /\ registered = <<>>

\* the (offset, type) pairs of the entries that "new" has after those of "old"
Appended(old, new) ==
    [i \in 1..(Len(new) - Len(old)) |->
        [offset |-> new[Len(old) + i].offset, type |-> new[Len(old) + i].type]]

\* read_file: reader.register(0, ALBankFile), then reader.resolve() is entered
ReadFile ==
    /\ pc = "constructed"
    /\ LET r == register(items, changed, 0, "ALBankFile")
       IN /\ items' = r.items
          /\ changed' = r.changed
          /\ ret' = r.ret
          /\ err' = r.err
          /\ op' = [name |-> "register", offset |-> 0, type |-> "ALBankFile",
                    by |-> "read_file", taken |-> TypesAt(items, 0)]
    /\ pc' = "while"
    /\ passRegs' = 0
    /\ registered' = registered \o Appended(items, items')
    /\ UNCHANGED <<buffer, iopos, idx, apiCalls, session>>

\* the loop test without "self.changed = False"
ResolveWhile_KeepFlag ==
    /\ pc = "while"
    /\ IF changed
       THEN /\ idx' = 1
            /\ pc' = "for"
            /\ passRegs' = 0
            /\ UNCHANGED <<err, changed>>
       ELSE /\ pc' = "idle"
            /\ err' = ""
            /\ UNCHANGED <<changed, idx, passRegs>>
    /\ op' = [name |-> "while", exit |-> ~changed]
    /\ UNCHANGED <<buffer, iopos, items, ret, apiCalls, session, registered>>

\* resolve: the test of "while self.changed", and "self.changed = False"
ResolveWhile ==
    /\ pc = "while"
    /\ IF changed
       THEN /\ changed' = FALSE
            /\ idx' = 1
            /\ pc' = "for"
            /\ passRegs' = 0
            /\ UNCHANGED err
       ELSE /\ pc' = "idle"
            /\ err' = ""
            /\ UNCHANGED <<changed, idx, passRegs>>
    /\ op' = [name |-> "while", exit |-> ~changed]
    /\ UNCHANGED <<buffer, iopos, items, ret, apiCalls, session, registered>>

\* where an exception leaves the caller: read_file returns no Reader; a caller
\* that holds the Reader keeps it
Raised == IF session.load /\ apiCalls = 0 THEN "failed" ELSE "idle"

\* resolve: one turn of "for item in self.items" (the list is walked by
\* index, so entries appended during the pass are visited in the same pass)
ResolveItem ==
    /\ pc = "for"
    /\ idx <= Len(items)
    /\ LET item == items[idx]
       IN IF item.offset < 0
          THEN \* io.seek of a negative offset
               /\ err' = "ValueError"
               /\ pc' = Raised
               /\ op' = [name |-> "unpack", index |-> idx, offset |-> item.offset,
                         type |-> item.type, decoded |-> item.value # None,
                         calls |-> <<>>, reads |-> <<>>, err |-> "ValueError"]
               /\ UNCHANGED <<iopos, items, changed, idx, passRegs>>
          ELSE IF item.type \notin RecordTypes
          THEN /\ err' = "Exception: does not have an unpack method"
               /\ pc' = Raised
               /\ iopos' = item.offset
               /\ op' = [name |-> "unpack", index |-> idx, offset |-> item.offset,
                         type |-> item.type, decoded |-> item.value # None,
                         calls |-> <<>>, reads |-> <<>>,
                         err |-> "Exception: does not have an unpack method"]
               /\ UNCHANGED <<items, changed, idx, passRegs>>
          ELSE \E d \in {Decode(item.type, buffer, item.offset, items, changed)} :
                  /\ iopos' = d.pos
                  /\ changed' = d.changed
                  /\ passRegs' = passRegs + Len(d.items) - Len(items)
                  /\ err' = d.err
                  /\ op' = [name |-> "unpack", index |-> idx, offset |-> item.offset,
                            type |-> item.type, decoded |-> item.value # None,
                            calls |-> d.calls, reads |-> d.reads, err |-> d.err]
                  /\ IF d.err # ""
                     THEN /\ items' = d.items
                          /\ pc' = Raised
                          /\ UNCHANGED idx
                     ELSE /\ items' = [d.items EXCEPT ![idx].value = d.value,
                                                      ![idx].size = d.pos - item.offset]
                          /\ idx' = idx + 1
                          /\ UNCHANGED pc
    /\ registered' = registered \o Appended(items, items')
    /\ UNCHANGED <<buffer, ret, apiCalls, session>>

\* resolve: the for loop runs out of entries
ResolveForEnd ==
    /\ pc = "for"
    /\ idx > Len(items)
    /\ pc' = "while"
    /\ op' = [name |-> "for-end"]
    /\ UNCHANGED <<buffer, iopos, items, changed, idx, err, ret, passRegs, apiCalls,
                   session, registered>>

\* a caller's own reader.register(o, T)
ApiRegister(o, T) ==
    /\ pc = "idle"
    /\ apiCalls < session.budget
    /\ LET r == register(items, changed, o, T)
       IN /\ items' = r.items
          /\ changed' = r.changed
          /\ ret' = r.ret
          /\ err' = r.err
    /\ op' = [name |-> "register", offset |-> o, type |-> T, by |-> "caller",
              taken |-> TypesAt(items, o)]
    /\ apiCalls' = apiCalls + 1
    /\ registered' = registered \o Appended(items, items')
    /\ UNCHANGED <<buffer, iopos, pc, idx, passRegs, session>>

\* a caller's own reader.resolve()
ApiResolve ==
    /\ pc = "idle"
    /\ apiCalls < session.budget
    /\ pc' = "while"
    /\ passRegs' = 0
    /\ op' = [name |-> "resolve"]
    /\ apiCalls' = apiCalls + 1
    /\ UNCHANGED <<buffer, iopos, items, changed, idx, err, ret, session, registered>>

---------------------------------------------------------------------------
(* Reader.print, Reader.determine_alignments and the two queries, as calls *)
(* of a caller that holds the Reader                                       *)

\* BytesIO.read(size): a negative size reads to the end of the buffer
ioreadAny(buf, pos, size) ==
    IF size < 0 THEN ioread(buf, pos, Len(buf)) ELSE ioread(buf, pos, size)

\* self.items.sort(key=lambda item: item.offset)
SortByOffset(its) == SortSeq(its, LAMBDA a, b : a.offset < b.offset)

\* print: the alignment step of one turn of the loop.  w is the walk so far:
\* the stream position, the local "offset", the output events, the exception
PrintAlign(w, buf) ==
    LET aligned == ((w.offset + 7) \div 8) * 8
        align_size == aligned - w.offset
        aligners == ioreadAny(buf, w.pos, align_size)
        zero == aligners = [i \in 1..align_size |-> 0]
    IN IF aligned = 0 THEN w
       ELSE [pos |-> w.pos + Len(aligners),
             offset |-> IF zero THEN aligned ELSE w.offset,
             events |-> Append(w.events,
                          [kind |-> "zeros", from |-> w.pos,
                           to |-> w.pos + Len(aligners), label |-> w.offset]),
             err |-> IF zero THEN "" ELSE "AssertionError"]

\* print: the "Bytes" output of one turn, when offset != item.offset
PrintGap(w, item, buf) ==
    LET gap == ioreadAny(buf, w.pos, item.offset - w.offset)
    IN IF w.err # "" \/ w.offset = item.offset THEN w
       ELSE [pos |-> w.pos + Len(gap), offset |-> item.offset,
             events |-> Append(w.events,
                          [kind |-> "gap", from |-> w.pos, to |-> w.pos + Len(gap),
                           label |-> w.offset]),
             err |-> ""]

\* print: the record's output, and the seek to its end
PrintRecord(w, item) ==
    IF w.err # "" THEN w
    ELSE [pos |-> IF item.offset + item.size < 0 THEN w.pos
                  ELSE item.offset + item.size,
          offset |-> item.offset + item.size,
          events |-> Append(w.events,
                       [kind |-> "record", from |-> item.offset,
                        to |-> item.offset + item.size, label |-> w.offset]),
          err |-> IF item.offset + item.size < 0 THEN "ValueError" ELSE ""]

\* print: "for item in self.items", from entry k on
RECURSIVE PrintWalk(_, _, _, _)
PrintWalk(w, its, k, buf) ==
    IF k > Len(its) \/ w.err # "" THEN w
    ELSE PrintWalk(PrintRecord(PrintGap(PrintAlign(w, buf), its[k], buf), its[k]),
                   its, k + 1, buf)

\* print: the trailing bytes
PrintTrailing(w, buf) ==
    LET trailing == ioreadAny(buf, w.pos, -1)
    IN IF w.err # "" THEN w
       ELSE [pos |-> w.pos + Len(trailing), offset |-> w.offset,
             events |-> IF trailing # <<>>
                        THEN Append(w.events,
                               [kind |-> "trailing", from |-> w.pos,
                                to |-> w.pos + Len(trailing), label |-> w.offset])
                        ELSE w.events,
             err |-> ""]

\* a caller's reader.print()
ApiPrint ==
    /\ pc = "idle"
    /\ apiCalls < session.budget
    /\ LET sorted == SortByOffset(items)
           w == PrintTrailing(
                   PrintWalk([pos |-> 0, offset |-> 0, events |-> <<>>, err |-> ""],
                             sorted, 1, buffer),
                   buffer)
       IN /\ items' = sorted
          /\ iopos' = w.pos
          /\ err' = w.err
          /\ op' = [name |-> "print", events |-> w.events, err |-> w.err]
    /\ apiCalls' = apiCalls + 1
    /\ UNCHANGED <<buffer, changed, pc, idx, ret, passRegs, session, registered>>

\* bin(offset)[::-1].find("1"): the number of trailing zero bits, -1 for 0
RECURSIVE TrailingZeros(_)
TrailingZeros(n) ==
    IF n = 0 THEN -1
    ELSE IF n % 2 = 1 THEN 0
    ELSE 1 + TrailingZeros(n \div 2)

\* determine_alignments: the types in order of first appearance in items
RECURSIVE TypesInOrder(_, _)
TypesInOrder(its, types) ==
    IF its = <<>> THEN types
    ELSE TypesInOrder(Tail(its),
                      IF \E i \in 1..Len(types) : types[i] = Head(its).type
                      THEN types ELSE Append(types, Head(its).type))

\* determine_alignments: min(alignment, minAlignment) over the entries of a
\* type, starting from 16
MinAlignment(its, T) ==
    Min({16} \cup {TrailingZeros(its[i].offset) :
                     i \in {j \in 1..Len(its) : its[j].type = T}})

\* a caller's reader.determine_alignments(): prints, changes nothing
ApiDetermineAlignments ==
    /\ pc = "idle"
    /\ apiCalls < session.budget
    /\ op' = [name |-> "determine_alignments",
              out |-> LET types == TypesInOrder(items, <<>>)
                      IN [i \in 1..Len(types) |->
                            <<types[i], MinAlignment(items, types[i])>>]]
    /\ apiCalls' = apiCalls + 1
    /\ UNCHANGED <<buffer, iopos, items, changed, pc, idx, err, ret, passRegs,
                   session, registered>>

\* a caller's reader.get(o)
ApiGet(o) ==
    /\ pc = "idle"
    /\ apiCalls < session.budget
    /\ op' = [name |-> "get", offset |-> o, out |-> get(items, o)]
    /\ apiCalls' = apiCalls + 1
    /\ UNCHANGED <<buffer, iopos, items, changed, pc, idx, err, ret, passRegs,
                   session, registered>>

\* a caller's reader.all(T)
ApiAll(T) ==
    /\ pc = "idle"
    /\ apiCalls < session.budget
    /\ op' = [name |-> "all", type |-> T, out |-> all(items, T)]
    /\ apiCalls' = apiCalls + 1
    /\ UNCHANGED <<buffer, iopos, items, changed, pc, idx, err, ret, passRegs,
                   session, registered>>

Step == ReadFile \/ ResolveWhile \/ ResolveItem \/ ResolveForEnd

Next ==
    \/ Step
    \/ \E o \in ApiOffsets, T \in ApiTypes : ApiRegister(o, T)
    \/ ApiResolve

Spec == Init /\ [][Next]_vars

\* the code is synchronous: a step of read_file / resolve that can be taken is
\* taken; the caller's own calls are under no obligation
FairSpec == Spec /\ WF_vars(Step)

\* The base layout with every record on an 8-byte boundary: four zero bytes
\* before the wavetable, which moves from 180 to 184
AlignedBuffer ==
    Patch(Patch(SubSeq(BaseBuffer, 1, 180) \o <<0, 0, 0, 0>>
                    \o SubSeq(BaseBuffer, 181, Len(BaseBuffer)),
                67, 184),
          83, 184)

\* the instrument lists its sounds as 72, 56 instead of 56, 72
SwapSounds(buf) == Patch(Patch(buf, 51, 72), 55, 56)

\* buffers that load, for the sessions that go on to print and query: the
\* two layouts, each also with the sounds swapped; the base layout with a
\* wavetable whose first field (base) is zero; bytes after the last record
QueryBuffers ==
    {BaseBuffer, AlignedBuffer, SwapSounds(BaseBuffer), SwapSounds(AlignedBuffer),
     Patch(BaseBuffer, 182, 0), AlignedBuffer \o <<7, 7>>}

QueryTypes == {"ALBankFile", "ALInstrument", "ALSound"}

\* read_file(buffer), after which the caller makes up to MaxApiCalls calls
QueryInit ==
    /\ buffer \in QueryBuffers
    /\ session = [load |-> TRUE, budget |-> MaxApiCalls]
    /\ iopos = 0
    /\ items = <<>>
    /\ changed = FALSE
    /\ pc = "constructed"
    /\ idx = 0
    /\ err = ""
    /\ ret = None
    /\ op = [name |-> "init"]
    /\ passRegs = 0
    /\ apiCalls = 0
    /\ registered = <<>>

QueryNext ==
    \/ Next
    \/ ApiPrint
    \/ ApiDetermineAlignments
    \/ \E o \in ApiOffsets : ApiGet(o)
    \/ \E T \in QueryTypes : ApiAll(T)

QuerySpec == QueryInit /\ [][QueryNext]_vars


---------------------------------------------------------------------------
(* The container encoder of src/harmony/aifc.py and the AifcWriter of      *)
(* src/music.py.  A byte string is a sequence of bytes; a call yields      *)
(* [err, out]: the exception it raised ("" when none) and the bytes it     *)
(* returned.                                                               *)

Bytes(out) == [err |-> "", out |-> out]

Fail(e) == [err |-> e, out |-> <<>>]

\* b"..." + b"..." over results that may have raised: the operands are
\* evaluated left to right and the first exception ends the expression
RECURSIVE Join(_)
Join(parts) ==
    IF parts = <<>> THEN Bytes(<<>>)
    ELSE IF Head(parts).err # "" THEN Fail(Head(parts).err)
    ELSE LET rest == Join(Tail(parts))
         IN IF rest.err # "" THEN rest ELSE Bytes(Head(parts).out \o rest.out)

\* the tags and fixed strings of the code, as bytes
FORM == <<70, 79, 82, 77>>
AIFC == <<65, 73, 70, 67>>
COMM == <<67, 79, 77, 77>>
SSND == <<83, 83, 78, 68>>
APPL == <<65, 80, 80, 76>>
stoc == <<115, 116, 111, 99>>
VADPCMCODES == <<86, 65, 68, 80, 67, 77, 67, 79, 68, 69, 83>>
VAPC == <<86, 65, 80, 67>>
VADPCM_4_1 == <<86, 65, 68, 80, 67, 77, 32, 126, 52, 45, 49>>

\* the n big-endian bytes of v >= 0
ToBytes(v, n) ==
    LET pow == [k \in 0..3 |-> CASE k = 0 -> 1 [] k = 1 -> 256
                                 [] k = 2 -> 65536 [] k = 3 -> 16777216]
    IN [i \in 1..n |-> (v \div pow[n - i]) % 256]

\* struct.pack of one integer under ">h", ">H", ">i", ">I": struct.error
\* when the value is out of the format's range, two's complement when
\* negative (the complement of the bytes of -v - 1)
pack(code, v) ==
    LET n == IF code \in {"h", "H"} THEN 2 ELSE 4
        ok == CASE code = "h" -> -32768 <= v /\ v <= 32767
                [] code = "H" -> 0 <= v /\ v <= 65535
                [] code = "i" -> TRUE
                [] code = "I" -> 0 <= v
    IN IF ~ok THEN Fail("struct.error")
       ELSE IF v >= 0 THEN Bytes(ToBytes(v, n))
       ELSE Bytes([i \in 1..n |-> 255 - ToBytes(-v - 1, n)[i]])

\* pstring with the pad test inverted
pstring_PadOdd(data) ==
    IF Len(data) > 255 THEN Fail("ValueError")
    ELSE Bytes(<<Len(data)>> \o data \o (IF Len(data) % 2 = 0 THEN <<>> ELSE <<0>>))

\* pstring(data): bytes([len(data)]) raises ValueError above 255
pstring(data) ==
    IF Len(data) > 255 THEN Fail("ValueError")
    ELSE Bytes(<<Len(data)>> \o data \o (IF Len(data) % 2 # 0 THEN <<>> ELSE <<0>>))

\* align(val, al) for al = 2: (val + 1) & -2
align2(val) == ((val + 1) \div 2) * 2

\* serialize_f80 works on Python integers below 2^80; here such an integer is
\* the sequence of its 80 bits, most significant first
Width == 80

BitAnd(a, b) == [i \in 1..Width |-> a[i] * b[i]]
BitOr(a, b) == [i \in 1..Width |-> IF a[i] + b[i] > 0 THEN 1 ELSE 0]
BitXor(a, b) == [i \in 1..Width |-> (a[i] + b[i]) % 2]
ShiftRight(a, k) == [i \in 1..Width |-> IF i - k >= 1 THEN a[i - k] ELSE 0]
ShiftLeft(a, k) == [i \in 1..Width |-> IF i + k <= Width THEN a[i + k] ELSE 0]
\* 2**k and 2**k - 1
PowerOfTwo(k) == [i \in 1..Width |-> IF i = Width - k THEN 1 ELSE 0]
LowOnes(k) == [i \in 1..Width |-> IF i > Width - k THEN 1 ELSE 0]
Zero80 == [i \in 1..Width |-> 0]

\* the number a bit string stands for (used on at most 16 bits)
RECURSIVE IntOf(_)
IntOf(bits) ==
    IF bits = <<>> THEN 0
    ELSE 2 * IntOf(SubSeq(bits, 1, Len(bits) - 1)) + bits[Len(bits)]

\* the n bits of 0 <= v < 2**n, most significant first, for n <= 16
BitsOf(v, n) ==
    LET pow == [k \in 0..15 |-> IntOf(<<1>> \o [j \in 1..k |-> 0])]
    IN [i \in 1..n |-> (v \div pow[n - i]) % 2]

\* the 80-bit integer of a number below 2**16, and back
FromInt(v) == [i \in 1..(Width - 16) |-> 0] \o BitsOf(v, 16)
ToInt(a) == IntOf(SubSeq(a, Width - 15, Width))

\* the bytes of a bit string whose length is a multiple of 8
BytesOfBits(bits) ==
    [i \in 1..(Len(bits) \div 8) |-> IntOf(SubSeq(bits, 8 * i - 7, 8 * i))]

\* struct.unpack(">Q", struct.pack(">d", num)): the double with sign s,
\* biased exponent e and the 52 mantissa bits m, as an integer
Double(s, e, m) == [i \in 1..(Width - 64) |-> 0] \o <<s>> \o BitsOf(e, 11) \o m

\* serialize_f80 with the double's bias kept (no "exponent -= 1023")
serialize_f80_NoUnbias(f64) ==
    LET f64_sign_bit == BitAnd(f64, PowerOfTwo(63))
        exponent == ToInt(ShiftRight(BitXor(f64, f64_sign_bit), 52))
        f64_mantissa_bits == BitAnd(f64, LowOnes(52))
        f80 == BitOr(BitOr(ShiftLeft(f64_sign_bit, 80 - 64),
                           ShiftLeft(FromInt(exponent + 16383), 64)),
                     BitOr(PowerOfTwo(63), ShiftLeft(f64_mantissa_bits, 63 - 52)))
    IN IF BitXor(f64, f64_sign_bit) = Zero80
       THEN Bytes(IF f64_sign_bit # Zero80 THEN <<128>> \o [i \in 1..9 |-> 0]
                  ELSE [i \in 1..10 |-> 0])
       ELSE IF exponent = 0 \/ exponent = 2047 THEN Fail("AssertionError")
       ELSE Join(<<pack("H", ToInt(ShiftRight(f80, 64))),
                   Bytes(BytesOfBits(SubSeq(BitAnd(f80, LowOnes(64)), 17, Width)))>>)

\* serialize_f80(num), on the integer f64 of the double num
serialize_f80(f64) ==
    LET f64_sign_bit == BitAnd(f64, PowerOfTwo(63))
        exponent == ToInt(ShiftRight(BitXor(f64, f64_sign_bit), 52))
        f64_mantissa_bits == BitAnd(f64, LowOnes(52))
        f80_sign_bit == ShiftLeft(f64_sign_bit, 80 - 64)
        f80_exponent == ShiftLeft(FromInt(exponent - 1023 + 16383), 64)
        f80_mantissa_bits == BitOr(PowerOfTwo(63), ShiftLeft(f64_mantissa_bits, 63 - 52))
        f80 == BitOr(BitOr(f80_sign_bit, f80_exponent), f80_mantissa_bits)
    IN IF BitXor(f64, f64_sign_bit) = Zero80
       THEN \* num == 0.0
            Bytes(IF f64_sign_bit # Zero80 THEN <<128>> \o [i \in 1..9 |-> 0]
                  ELSE [i \in 1..10 |-> 0])
       ELSE IF exponent = 0 THEN Fail("AssertionError")
       ELSE IF exponent = 2047 THEN Fail("AssertionError")
       ELSE Join(<<pack("H", ToInt(ShiftRight(f80, 64))),
                   Bytes(BytesOfBits(SubSeq(BitAnd(f80, LowOnes(64)), 17, Width)))>>)

\* b"".join(struct.pack(">h", x) for x in tableData)
PackTable(tableData) ==
    IF \E i \in 1..Len(tableData) : pack("h", tableData[i]).err # ""
    THEN Fail("struct.error")
    ELSE Bytes([i \in 1..(2 * Len(tableData)) |->
                   pack("h", tableData[(i + 1) \div 2]).out[2 - (i % 2)]])

\* header + data of a chunk: tag, struct.pack(long, len(data)), data
WithHeader(tag, data) ==
    IF data.err # "" THEN data
    ELSE Join(<<Bytes(tag), pack("i", Len(data.out)), data>>)

\* CommonChunk.serialize
CommonChunk_serialize(c) ==
    WithHeader(COMM,
        Join(<<pack("h", c.num_channels), pack("I", c.num_frames),
               pack("h", c.sample_size), serialize_f80(c.sample_rate),
               Bytes(c.compression_type), pstring(c.compression_string)>>))

\* SoundDataChunk.serialize without the pad byte
SoundDataChunk_serialize_NoPad(c) ==
    WithHeader(SSND,
        Join(<<pack("I", c.offset), pack("I", c.block_size), Bytes(c.soundData)>>))

\* SoundDataChunk.serialize
SoundDataChunk_serialize(c) ==
    LET data == Join(<<pack("I", c.offset), pack("I", c.block_size),
                       Bytes(c.soundData)>>)
    IN Join(<<WithHeader(SSND, data),
              Bytes(IF Len(data.out) % 2 = 0 THEN <<>> ELSE <<0>>)>>)

\* VadpcmCodesChunk.serialize without the assertion on the table's length
VadpcmCodesChunk_serialize_NoAssert(c) ==
    WithHeader(APPL,
        Join(<<Bytes(stoc), pstring(VADPCMCODES), pack("H", 1), pack("h", c.order),
               pack("H", c.nEntries), PackTable(c.tableData)>>))

\* VadpcmCodesChunk.serialize (version = 1)
VadpcmCodesChunk_serialize(c) ==
    LET head == Join(<<Bytes(stoc), pstring(VADPCMCODES), pack("H", 1),
                       pack("h", c.order), pack("H", c.nEntries)>>)
        table_data == PackTable(c.tableData)
    IN IF head.err # "" THEN head
       ELSE IF table_data.err # "" THEN table_data
       ELSE IF Len(table_data.out) # c.order * c.nEntries * 16
       THEN Fail("AssertionError")
       ELSE WithHeader(APPL, Join(<<head, table_data>>))

\* chunk.serialize() of whichever class the chunk has
serialize(c) ==
    CASE c.cls = "CommonChunk" -> CommonChunk_serialize(c)
      [] c.cls = "SoundDataChunk" -> SoundDataChunk_serialize(c)
      [] c.cls = "VadpcmCodesChunk" -> VadpcmCodesChunk_serialize(c)

\* FormAIFCChunk.serialize with the chunks in reverse order
FormAIFCChunk_serialize_Reversed(chunks) ==
    LET blocks == Join(<<Bytes(AIFC)>>
                       \o [i \in 1..Len(chunks) |-> serialize(chunks[Len(chunks) + 1 - i])])
    IN IF blocks.err # "" THEN blocks
       ELSE Join(<<Bytes(FORM), pack("i", Len(blocks.out)), blocks>>)

\* FormAIFCChunk.serialize
FormAIFCChunk_serialize(chunks) ==
    LET blocks == Join(<<Bytes(AIFC)>>
                       \o [i \in 1..Len(chunks) |-> serialize(chunks[i])])
    IN IF blocks.err # "" THEN blocks
       ELSE Join(<<Bytes(FORM), pack("i", Len(blocks.out)), blocks>>)

\* AifcWriter.__init__: no sections, total_size 0 (out is the file written)
AifcWriter == [sections |-> <<>>, total_size |-> 0, out |-> <<>>, err |-> ""]

\* AifcWriter.add_section(tp, data)
add_section(w, tp, data) ==
    [w EXCEPT !.sections = Append(@, [tp |-> tp, data |-> data]),
              !.total_size = @ + align2(Len(data)) + 8]

\* AifcWriter.add_custom_section(tp, data), with AifcWriter.pstring
add_custom_section(w, tp, data) ==
    LET body == Join(<<Bytes(stoc), pstring(tp), Bytes(data)>>)
    IN IF body.err # "" THEN [w EXCEPT !.err = body.err]
       ELSE add_section(w, APPL, body.out)

\* AifcWriter.finish: what one section writes
SectionBytes(sec) ==
    Join(<<Bytes(sec.tp), pack("I", Len(sec.data)), Bytes(sec.data),
           Bytes(IF Len(sec.data) % 2 = 1 THEN <<0>> ELSE <<>>)>>)

\* AifcWriter.finish
finish(w) ==
    LET total == w.total_size + 4
        written == Join(<<Bytes(FORM), pack("I", total), Bytes(AIFC)>>
                        \o [i \in 1..Len(w.sections) |-> SectionBytes(w.sections[i])])
    IN [w EXCEPT !.total_size = total, !.out = written.out, !.err = written.err]

\* process_pair, for one sound: the three sections written for the sample
\* bytes "data" and the sound's codebook, through an AifcWriter
process_pair(data, book) ==
    LET num_frames == (Len(data) * 16) \div 9
        comm == Join(<<pack("h", 1), pack("I", num_frames), pack("h", 16),
                       serialize_f80(Double(0, 1037, BitsOf(5666, 14) \o [i \in 1..38 |-> 0])),
                       Bytes(VAPC), pstring(VADPCM_4_1)>>)
        vrapcmcodes == Join(<<pack("h", 1), pack("h", book.order),
                              pack("h", book.npredictors), PackTable(book.book)>>)
        ssnd == Join(<<pack("I", 0), pack("I", 0), Bytes(data)>>)
    IN IF comm.err # "" THEN [AifcWriter EXCEPT !.err = comm.err]
       ELSE IF vrapcmcodes.err # "" THEN [AifcWriter EXCEPT !.err = vrapcmcodes.err]
       ELSE finish(add_section(
                     add_custom_section(add_section(AifcWriter, COMM, comm.out),
                                        VADPCMCODES, vrapcmcodes.out),
                     SSND, ssnd.out))

---------------------------------------------------------------------------
(* The encoder run on its own: one call of one function per behaviour.     *)
(* session is the call (the function and its arguments), ret the bytes     *)
(* returned or written, err the exception raised; the Reader's variables   *)
(* stay as constructed.                                                    *)

\* payloads have 0..MaxPayload bytes
MaxPayload == 3
\* pstring is called on strings of 0..MaxString bytes
MaxString == 256
\* codebooks have order -1..MaxOrder and 0..MaxEntries predictors
MaxOrder == 2
MaxEntries == 4
\* an AifcWriter is given up to MaxSections sections
MaxSections == 2

PayloadBytes == {0, 255}
Payloads == UNION {[1..n -> PayloadBytes] : n \in 0..MaxPayload}

Strings == {[i \in 1..n |-> 65 + (i % 26)] : n \in 0..MaxString}

\* doubles: both signs, the exponents at the edges of the format and the
\* exponent of 22050.0, five mantissas
Exponents == {0, 1, 1023, 1037, 2046, 2047}
Mantissa22050 == BitsOf(5666, 14) \o [i \in 1..38 |-> 0]
Mantissas ==
    {[i \in 1..52 |-> 0], [i \in 1..52 |-> 1], Mantissa22050,
     [i \in 1..52 |-> IF i = 52 THEN 1 ELSE 0],
     [i \in 1..52 |-> IF i = 1 THEN 1 ELSE 0]}
Doubles == {Double(s, e, m) : s \in {0, 1}, e \in Exponents, m \in Mantissas}
Double22050 == Double(0, 1037, Mantissa22050)

Table(n) == [i \in 1..n |-> ((i * 3) % 5) - 2]
TableLens(o, n) == {l \in {0, 8 * o * n - 1, 8 * o * n, 8 * o * n + 1} : l >= 0}
VadpcmCodesChunks ==
    UNION {{[cls |-> "VadpcmCodesChunk", order |-> o, nEntries |-> n,
             tableData |-> Table(l)] : l \in TableLens(o, n)} :
           o \in -1..MaxOrder, n \in 0..MaxEntries}
    \cup {[cls |-> "VadpcmCodesChunk", order |-> 40000, nEntries |-> 0,
           tableData |-> <<>>],
          [cls |-> "VadpcmCodesChunk", order |-> 1, nEntries |-> 1,
           tableData |-> [i \in 1..8 |-> IF i = 8 THEN 40000 ELSE 0]]}

CommonChunks ==
    {[cls |-> "CommonChunk", num_channels |-> ch, num_frames |-> fr,
      sample_size |-> 16, sample_rate |-> rate, compression_type |-> tp,
      compression_string |-> str] :
        ch \in {1, 40000}, fr \in {0, 5},
        rate \in {Double22050, Double(0, 0, Mantissa22050), Double(1, 0, [i \in 1..52 |-> 0])},
        tp \in {VAPC, <<78, 79, 78>>}, str \in {VADPCM_4_1, <<>>}}

SoundDataChunks ==
    {[cls |-> "SoundDataChunk", offset |-> o, block_size |-> 0, soundData |-> d] :
        o \in {0, -1}, d \in Payloads}

\* the chunk lists given to a FormAIFCChunk: the three chunks of a sound in
\* the container's order, and a few other lists
SoundCommon(data, tp) ==
    [cls |-> "CommonChunk", num_channels |-> 1,
     num_frames |-> (Len(data) * 16) \div 9, sample_size |-> 16,
     sample_rate |-> Double22050, compression_type |-> tp,
     compression_string |-> VADPCM_4_1]
SoundData(data) ==
    [cls |-> "SoundDataChunk", offset |-> 0, block_size |-> 0, soundData |-> data]
ChunkLists ==
    {<<SoundCommon(d, VAPC), c, SoundData(d)>> : c \in VadpcmCodesChunks, d \in Payloads}
    \cup {<<SoundData(d), SoundCommon(d, <<78, 79, 78>>)>> : d \in Payloads}
    \cup {<<>>}

\* the codebooks process_pair finds on a sound's wavetable
Books ==
    {[order |-> c.order, npredictors |-> c.nEntries, book |-> c.tableData] :
        c \in VadpcmCodesChunks}

SectionLists ==
    UNION {[1..n -> {[tp |-> t, data |-> d] : t \in {COMM, SSND}, d \in Payloads}] :
           n \in 0..MaxSections}

AifcCalls ==
    {[fn |-> "pstring", arg |-> s] : s \in Strings}
    \cup {[fn |-> "serialize_f80", arg |-> d] : d \in Doubles}
    \cup {[fn |-> "CommonChunk.serialize", arg |-> c] : c \in CommonChunks}
    \cup {[fn |-> "SoundDataChunk.serialize", arg |-> c] : c \in SoundDataChunks}
    \cup {[fn |-> "VadpcmCodesChunk.serialize", arg |-> c] : c \in VadpcmCodesChunks}
    \cup {[fn |-> "FormAIFCChunk.serialize", arg |-> l] : l \in ChunkLists}
    \cup {[fn |-> "AifcWriter", arg |-> l] : l \in SectionLists}
    \cup {[fn |-> "process_pair", arg |-> [data |-> d, book |-> b]] :
             d \in Payloads, b \in Books}

AifcInit ==
    /\ session \in AifcCalls
    /\ buffer = <<>>
    /\ iopos = 0
    /\ items = <<>>
    /\ changed = FALSE
    /\ pc = "call"
    /\ idx = 0
    /\ err = ""
    /\ ret = None
    /\ op = [name |-> "init"]
    /\ passRegs = 0
    /\ apiCalls = 0
    /\ registered = <<>>

\* the session's call is one of fn and has not been made yet
Calling(fn) == pc = "call" /\ session.fn = fn

\* the call returns or raises with "result"
Called(result) ==
    /\ pc' = IF result.err = "" THEN "returned" ELSE "raised"
    /\ err' = result.err
    /\ ret' = IF result.err = "" THEN result.out ELSE None
    /\ UNCHANGED <<buffer, iopos, items, changed, idx, passRegs, apiCalls,
                   session, registered>>

CallPstring ==
    /\ Calling("pstring")
    /\ \E r \in {pstring(session.arg)} : Called(r)
    /\ op' = [name |-> "pstring"]

CallSerializeF80 ==
    /\ Calling("serialize_f80")
    /\ \E r \in {serialize_f80(session.arg)} : Called(r)
    /\ op' = [name |-> "serialize_f80"]

CallCommonChunk ==
    /\ Calling("CommonChunk.serialize")
    /\ \E r \in {CommonChunk_serialize(session.arg)} : Called(r)
    /\ op' = [name |-> "serialize"]

CallSoundDataChunk ==
    /\ Calling("SoundDataChunk.serialize")
    /\ \E r \in {SoundDataChunk_serialize(session.arg)} : Called(r)
    /\ op' = [name |-> "serialize"]

CallVadpcmCodesChunk ==
    /\ Calling("VadpcmCodesChunk.serialize")
    /\ \E r \in {VadpcmCodesChunk_serialize(session.arg)} : Called(r)
    /\ op' = [name |-> "serialize"]

CallFormAIFCChunk ==
    /\ Calling("FormAIFCChunk.serialize")
    /\ \E r \in {FormAIFCChunk_serialize(session.arg)} : Called(r)
    /\ op' = [name |-> "serialize"]

\* writer = AifcWriter(file); writer.add_section(..) for each section of the
\* session; writer.finish()
RECURSIVE AddSections(_, _)
AddSections(w, secs) ==
    IF secs = <<>> THEN w
    ELSE AddSections(add_section(w, Head(secs).tp, Head(secs).data), Tail(secs))

\* a writer's file is written as far as the exception lets it: the model
\* keeps the bytes only when nothing was raised
CallAifcWriter ==
    /\ Calling("AifcWriter")
    /\ \E w \in {finish(AddSections(AifcWriter, session.arg))} :
        /\ Called([err |-> w.err, out |-> w.out])
        /\ op' = [name |-> "finish", total_size |-> w.total_size]

CallProcessPair ==
    /\ Calling("process_pair")
    /\ \E w \in {process_pair(session.arg.data, session.arg.book)} :
        /\ Called([err |-> w.err, out |-> w.out])
        /\ op' = [name |-> "finish", total_size |-> w.total_size]

AifcNext ==
    \/ CallPstring
    \/ CallSerializeF80
    \/ CallCommonChunk
    \/ CallSoundDataChunk
    \/ CallVadpcmCodesChunk
    \/ CallFormAIFCChunk
    \/ CallAifcWriter
    \/ CallProcessPair

AifcSpec == AifcInit /\ [][AifcNext]_vars

---------------------------------------------------------------------------
(* Properties *)

\* read_file has returned its Reader and the caller has not touched it yet
ReadFileReturned == session.load /\ pc = "idle" /\ apiCalls = 0

\* read_file is past its register(0, ALBankFile); the caller has made no call
InReadFile == session.load /\ pc # "constructed" /\ apiCalls = 0

\* the (offset, type) pairs a decoded record refers to; zero means absent
Refs(v) ==
    CASE v.cls = "ALBankFile" ->
           {<<v.bankArray[k], "ALBank">> : k \in 1..Len(v.bankArray)}
      [] v.cls = "ALBank" ->
           {<<v.instArray[k], "ALInstrument">> : k \in 1..Len(v.instArray)}
           \cup {<<v.percussion, "ALInstrument">>}
      [] v.cls = "ALInstrument" ->
           {<<v.soundArray[k], "ALSound">> : k \in 1..Len(v.soundArray)}
      [] v.cls = "ALSound" ->
           {<<v.wavetable, "ALWaveTable">>, <<v.envelope, "ALEnvelope">>,
            <<v.keyMap, "ALKeyMap">>}
      [] v.cls = "ALWaveTable" ->
           (IF v.loop # None THEN {<<v.loop.offset, "ALADPCMloop">>} ELSE {})
           \cup (IF v.book # None THEN {<<v.book.offset, "ALADPCMBook">>} ELSE {})
      [] OTHER -> {}

\* C1: in every reachable state, whatever register calls and resolve passes
\* led to it, no two entries of Reader.items have the same offset.
C1_Dedup ==
    \A i, j \in 1..Len(items) : items[i].offset = items[j].offset => i = j

\* a second parent (the second sound, in the first pass) has just referred to
\* offsets that the first sound registered
C1_Witness ==
    /\ op.name = "unpack" /\ op.type = "ALSound" /\ op.err = "" /\ ~op.decoded
    /\ Len(op.calls) = 3
    /\ \A k \in 1..3 : ~op.calls[k].appended
    /\ Cardinality({i \in 1..Len(items) : items[i].type = "ALSound"}) = 2

\* C2: when read_file returns normally, changed is false, every entry is
\* decoded with a size >= 0, and every non-zero offset a decoded record refers
\* to is an entry of the expected type whose value get() returns.
C2_Fixpoint ==
    ReadFileReturned =>
        /\ err = ""
        /\ ~changed
        /\ \A i \in 1..Len(items) :
             /\ items[i].value # None
             /\ items[i].value.cls = items[i].type
             /\ items[i].size >= 0
             /\ \A r \in Refs(items[i].value) :
                  r[1] # 0 =>
                    /\ \E j \in 1..Len(items) :
                         items[j].offset = r[1] /\ items[j].type = r[2]
                    /\ get(items, r[1]) # None
                    /\ get(items, r[1]).cls = r[2]

\* the whole base graph, wavetable with loop and book included, is loaded
C2_Witness ==
    /\ ReadFileReturned
    /\ Len(items) = 10
    /\ \E i \in 1..Len(items) :
         /\ items[i].type = "ALWaveTable"
         /\ items[i].value # None
         /\ items[i].value.loop # None /\ items[i].value.book # None

\* resolve is running
Resolving == pc \in {"while", "for"}

\* C3: resolve eventually stops (returns or raises); while it runs the
\* registered entries never shrink and none changes its offset or type; after
\* a pass the loop exits exactly when that pass registered nothing, and
\* read_file's resolve always runs a first pass.
C3_Termination ==
    /\ [](Resolving => <>(pc \in {"idle", "failed"}))
    /\ [][Resolving =>
            /\ Len(items') >= Len(items)
            /\ \A i \in 1..Len(items) :
                 /\ items'[i].offset = items[i].offset
                 /\ items'[i].type = items[i].type]_vars
    /\ [][pc = "while" /\ op.name = "for-end" =>
            ((pc' = "idle") <=> (passRegs = 0))]_vars
    /\ [][pc = "while" /\ op.name = "register" => pc' = "for"]_vars

\* the loop has exited after the passes over the whole base graph
C3_Witness ==
    /\ session.load /\ pc = "idle" /\ op.name = "while" /\ op.exit
    /\ Len(items) = 10 /\ passRegs = 0

\* C4: register(offset, T) when an entry with that offset and type T exists
\* leaves items and the changed flag as they were and returns a Pointer to
\* that offset -- for a caller's call, and for the calls of a decoder all of
\* whose offsets were registered before it ran.
C4_RegisterSameNoOp ==
    /\ [][(apiCalls' = apiCalls + 1 /\ op'.name = "register"
             /\ op'.type \in TypesAt(items, op'.offset)) =>
            /\ items' = items
            /\ changed' = changed
            /\ err' = ""
            /\ ret' = Pointer(op'.offset)]_vars
    /\ [][(pc = "for" /\ op'.name = "unpack"
             /\ \A k \in 1..Len(op'.calls) :
                  op'.calls[k].type \in TypesAt(items, op'.calls[k].offset)) =>
            /\ Len(items') = Len(items)
            /\ changed' = changed
            /\ \A i \in 1..Len(items) :
                 items'[i].offset = items[i].offset /\ items'[i].type = items[i].type
            /\ \A k \in 1..Len(op'.calls) :
                 ~op'.calls[k].appended /\ ~op'.calls[k].raised]_vars

\* a caller has just registered an offset under the type it already has
C4_Witness ==
    /\ op.name = "register" /\ op.by = "caller"
    /\ op.type \in op.taken
    /\ Len(items) > 0

\* C5: register(offset, T) when the offset is registered under another type
\* raises, appends nothing and leaves changed alone; raised inside read_file
\* it ends the load, and no Reader is returned.
C5_RegisterConflict ==
    /\ [][(apiCalls' = apiCalls + 1 /\ op'.name = "register"
             /\ TypesAt(items, op'.offset) \notin {{}, {op'.type}}) =>
            /\ items' = items
            /\ changed' = changed
            /\ err' = "Exception: offset already taken"
            /\ ret' = None]_vars
    /\ [][(pc = "for" /\ op'.name = "unpack") =>
            \A k \in 1..Len(op'.calls) :
               LET c == op'.calls[k]
                   prior == TypesAt(items, c.offset)
                            \cup {op'.calls[m].type :
                                    m \in {n \in 1..(k - 1) :
                                             op'.calls[n].offset = c.offset}}
               IN (prior \notin {{}, {c.type}}) =>
                    /\ c.raised /\ ~c.appended
                    /\ k = Len(op'.calls)
                    /\ op'.err = "Exception: offset already taken"
                    /\ err' = op'.err
                    /\ Len(items') =
                         Len(items) + Cardinality({m \in 1..k : op'.calls[m].appended})
                    /\ (InReadFile => pc' = "failed")]_vars
    /\ [][pc = "failed" => pc' = "failed"]_vars

\* a load has been ended by a decoder's conflicting registration
C5_Witness ==
    /\ pc = "failed" /\ err = "Exception: offset already taken"
    /\ op.name = "unpack"
    /\ op.calls # <<>> /\ op.calls[Len(op.calls)].raised
    /\ op.calls[Len(op.calls)].offset # 0

\* C6: during resolve the decoder of an entry is invoked only while that
\* entry is still undecoded.
C6_DecodedOnce ==
    op.name = "unpack" => ~op.decoded

\* C7: no decoder passes offset 0 to register, and a zero offset field does
\* not make the load fail.
C7_ZeroNeverRegistered ==
    op.name = "unpack" => \A k \in 1..Len(op.calls) : op.calls[k].offset # 0

\* the last decoder ran on a WaveTable whose 12-byte header is in the buffer,
\* with zero pad bytes and the raw-16-bit type discriminator
RawWaveDecoded ==
    /\ op.name = "unpack" /\ op.type = "ALWaveTable"
    /\ op.offset >= 0 /\ op.offset + 12 <= Len(buffer)
    /\ buffer[op.offset + 9] = AL_RAW16_WAVE
    /\ buffer[op.offset + 11] = 0 /\ buffer[op.offset + 12] = 0

\* C8: decoding a raw-16-bit WaveTable fails with an error no other outcome
\* produces, after reading the 12-byte header only and registering nothing.
C8_RawWaveFailsCleanly ==
    /\ RawWaveDecoded =>
         /\ op.err = "AssertionError"
         /\ op.reads = <<12>>
         /\ op.calls = <<>>
    /\ (op.name = "unpack" /\ ~RawWaveDecoded) => op.err # "AssertionError"

RECURSIVE Sum(_)
Sum(s) == IF s = <<>> THEN 0 ELSE Head(s) + Sum(Tail(s))

\* the bytes the layout of a decoded record occupies
LayoutSize(v, cap) ==
    CASE v.cls = "ALBankFile"   -> 4 + 4 * v.bankCount
      [] v.cls = "ALBank"       -> 12 + 4 * v.instCount
      [] v.cls = "ALInstrument" -> 16 + 4 * v.soundCount
      [] v.cls = "ALSound"      -> 15
      [] v.cls = "ALEnvelope"   -> 14
      [] v.cls = "ALKeyMap"     -> 6
      [] v.cls = "ALWaveTable"  -> 20
      [] v.cls = "ALADPCMBook"  -> 8 + 2 * BookRange(v.order, v.npredictors, cap)
      [] v.cls = "ALADPCMloop"  -> 44

\* C9: a decoder whose reads reach past the end of the buffer raises, which
\* ends read_file; a Reader that read_file returns holds only records whose
\* whole layout lies inside the buffer.
C9_TruncatedIsFatal ==
    /\ (op.name = "unpack" /\ op.offset >= 0
          /\ op.offset + Sum(op.reads) > Len(buffer)) =>
         /\ op.err # "" /\ err = op.err
         /\ pc = Raised
    /\ ReadFileReturned =>
         \A i \in 1..Len(items) :
            /\ items[i].value # None
            /\ items[i].size = LayoutSize(items[i].value, Len(buffer))
            /\ items[i].offset >= 0
            /\ items[i].offset + items[i].size <= Len(buffer)

\* a load of a cut-short buffer has failed deep in the graph on a short read
C9_Witness ==
    /\ pc = "failed" /\ err = "struct.error"
    /\ op.name = "unpack" /\ op.offset + Sum(op.reads) > Len(buffer)
    /\ Len(buffer) < Len(BaseBuffer)
    /\ Len(items) >= 4

\* C10: from read_file's root registration on, exactly one entry has type
\* ALBankFile, it has offset 0, and no entry of another type has offset 0;
\* after a successful load all(ALBankFile) has exactly one element.
C10_SingleRoot ==
    InReadFile =>
        /\ Cardinality({i \in 1..Len(items) : items[i].type = "ALBankFile"}) = 1
        /\ \A i \in 1..Len(items) :
             (items[i].type = "ALBankFile") <=> (items[i].offset = 0)
        /\ ReadFileReturned => Len(all(items, "ALBankFile")) = 1

\* a successful load of a graph of several records
C10_Witness ==
    /\ ReadFileReturned /\ err = ""
    /\ Len(items) >= 5
    /\ all(items, "ALBankFile") # <<>>
    /\ all(items, "ALBankFile")[1].cls = "ALBankFile"

\* a Reader that read_file returned, between two calls of its caller
Loaded == session.load /\ pc = "idle"

\* the values of the entries of type T, in the order register appended them
InRegistrationOrder(T) ==
    LET regs == SelectSeq(registered, LAMBDA r : r.type = T)
    IN [i \in 1..Len(regs) |-> get(items, regs[i].offset)]

\* C11: on a loaded Reader, whatever the caller has called so far, all(T)
\* returns the values of the entries registered with type T in the order in
\* which their offsets were first registered.
C11_QueryOrder ==
    Loaded =>
        /\ \A T \in RecordTypes : all(items, T) = InRegistrationOrder(T)
        /\ op.name = "all" => op.out = InRegistrationOrder(op.type)

\* byte b (0-based) belongs to a record of the Reader
InRecord(b) ==
    \E i \in 1..Len(items) :
        items[i].offset <= b /\ b < items[i].offset + items[i].size

\* the events of the last print of the given kinds that cover byte b
Covering(b, kinds) ==
    {k \in 1..Len(op.events) :
        /\ op.events[k].kind \in kinds
        /\ op.events[k].from <= b /\ b < op.events[k].to}

\* C20: print of a successfully loaded Reader walks the records in ascending
\* offset order, applies its all-zero check to no byte of a record, and, when
\* it completes, outputs every byte that is in no record and in no checked
\* padding as part of exactly one raw gap.
C20_DumpCoverage ==
    (Loaded /\ op.name = "print" /\ \A i \in 1..Len(items) : items[i].value # None) =>
        /\ \A i \in 1..(Len(items) - 1) : items[i].offset < items[i + 1].offset
        /\ \A b \in 0..(Len(buffer) - 1) :
             InRecord(b) => Covering(b, {"zeros"}) = {}
        /\ op.err = "" =>
             \A b \in 0..(Len(buffer) - 1) :
                IF InRecord(b) \/ Covering(b, {"zeros"}) # {}
                THEN Covering(b, {"gap", "trailing"}) = {}
                ELSE Cardinality(Covering(b, {"gap", "trailing"})) = 1

\* the signed 32-bit big-endian word at byte p (0-based) of the buffer
WordAt(p) ==
    LET b == SubSeq(buffer, p + 1, p + 4)
        u == ((b[1] % 128) * 256 + b[2]) * 65536 + b[3] * 256 + b[4]
    IN IF b[1] >= 128 THEN u - 1073741824 - 1073741824 ELSE u

\* the last step decoded a Bank (its reads succeeded; a register call may
\* have raised)
BankDecoded == op.name = "unpack" /\ op.type = "ALBank" /\ Len(op.reads) = 2

\* C12: a decoded Bank keeps instCount slots in buffer order, zero slots at
\* their index; zero slots and a zero percussion offset register nothing;
\* every non-zero one is registered as an ALInstrument, in order.
C12_BankSlots ==
    /\ BankDecoded => \A k \in 1..Len(op.calls) :
                        op.calls[k].offset # 0 /\ op.calls[k].type = "ALInstrument"
    /\ (BankDecoded /\ op.err = "") =>
         LET bank == items[op.index].value
             slots == <<bank.percussion>> \o bank.instArray
             used == SelectSeq(slots, LAMBDA x : x # 0)
         IN /\ Len(bank.instArray) = bank.instCount
            /\ bank.percussion = WordAt(op.offset + 8)
            /\ \A k \in 1..Len(bank.instArray) :
                 bank.instArray[k] = WordAt(op.offset + 8 + 4 * k)
            /\ [k \in 1..Len(op.calls) |-> op.calls[k].offset] = used
            /\ \A k \in 1..Len(used) :
                 \E i \in 1..Len(items) :
                    items[i].offset = used[k] /\ items[i].type = "ALInstrument"

\* a Bank with an empty slot after a used one was decoded
C12_Witness ==
    /\ BankDecoded /\ op.err = ""
    /\ LET bank == items[op.index].value
       IN /\ Len(bank.instArray) = 2
          /\ bank.instArray[1] # 0 /\ bank.instArray[2] = 0
          /\ Len(op.calls) = 2

\* n = 8 * order * npredictors, written so that no product beyond n * n is
\* formed (a non-zero factor of n / 8 is at most n in absolute value)
IsEightTimesProduct(n, order, np) ==
    LET abs(x) == IF x < 0 THEN -x ELSE x
    IN IF order = 0 \/ np = 0 THEN n = 0
       ELSE /\ abs(order) <= n /\ abs(np) <= n
            /\ 8 * order * np = n

\* C13: a Codebook decoded without error has exactly 8 * order * npredictors
\* coefficients and a consumed size of 8 bytes plus two per coefficient,
\* negative order or npredictors included (a record for which that cannot
\* hold is not returned).
C13_CodebookSize ==
    (op.name = "unpack" /\ op.type = "ALADPCMBook" /\ op.err = "") =>
        LET book == items[op.index].value
        IN /\ IsEightTimesProduct(Len(book.book), book.order, book.npredictors)
           /\ items[op.index].size = 8 + 2 * Len(book.book)

---------------------------------------------------------------------------
(* Properties of the encoder (checked under AifcSpec) *)

\* the session's call has been made
Made(fn) == session.fn = fn /\ pc \in {"returned", "raised"}

\* the unsigned big-endian value of the n bytes after byte p (0-based) of out
Unsigned(out, p, n) == BigEndian(SubSeq(out, p + 1, p + n), 0)

\* C14: VadpcmCodesChunk.serialize returns bytes only when the packed table
\* (2 bytes per tableData entry) has exactly order * nEntries * 16 bytes; for
\* any other table length it raises and no chunk bytes are returned.
C14_TableSize ==
    Made("VadpcmCodesChunk.serialize") =>
        LET c == session.arg
            exact == 2 * Len(c.tableData) = c.order * c.nEntries * 16
        IN /\ pc = "returned" => exact
           /\ ~exact => pc = "raised" /\ err # "" /\ ret = None

\* order 2 and 4 entries with 65 coefficients (130 bytes, not 128) was refused
C14_Witness ==
    /\ Made("VadpcmCodesChunk.serialize")
    /\ session.arg.order = 2 /\ session.arg.nEntries = 4
    /\ Len(session.arg.tableData) = 65
    /\ pc = "raised" /\ err = "AssertionError"

\* the number of bytes the first k of the parts take, part i taking size[i]
RECURSIVE Before(_, _)
Before(size, k) == IF k = 0 THEN 0 ELSE Before(size, k - 1) + size[k]

\* out is FORM, a length counting every byte after the length field, AIFC
FormHeader(out) ==
    /\ Len(out) >= 12
    /\ SubSeq(out, 1, 4) = FORM
    /\ Unsigned(out, 4, 4) = Len(out) - 8
    /\ SubSeq(out, 9, 12) = AIFC

\* out, after its 12 header bytes, is the parts in their order and no more
PartsInOrder(out, parts) ==
    LET size == [i \in 1..Len(parts) |-> Len(parts[i])]
    IN /\ Len(out) = 12 + Before(size, Len(parts))
       /\ \A i \in 1..Len(parts) :
             SubSeq(out, 13 + Before(size, i - 1), 12 + Before(size, i)) = parts[i]

\* what a section of an AifcWriter takes in the file: tag, length, data, pad
Section(sec) ==
    sec.tp \o ToBytes(Len(sec.data), 4) \o sec.data
    \o (IF Len(sec.data) % 2 = 1 THEN <<0>> ELSE <<>>)

C16_ChunkPadding ==
    \A fn \in {"CommonChunk.serialize", "VadpcmCodesChunk.serialize",
               "SoundDataChunk.serialize"} :
        (Made(fn) /\ pc = "returned") =>
            LET L == Unsigned(ret, 4, 4)
            IN /\ SubSeq(ret, 1, 4) = (CASE fn = "CommonChunk.serialize" -> COMM
                                         [] fn = "VadpcmCodesChunk.serialize" -> APPL
                                         [] fn = "SoundDataChunk.serialize" -> SSND)
               /\ Len(ret) = 8 + L + (L % 2)
               /\ L % 2 = 1 => ret[Len(ret)] = 0
               /\ Len(ret) % 2 = 0

\* C17: for every byte string of length n in 0..255, pstring returns one
\* length byte equal to n, the n data bytes unchanged, then one zero byte
\* exactly when n + 1 is odd; the result has even length and the length byte
\* does not count the pad.
C17_Pstring ==
    (Made("pstring") /\ Len(session.arg) <= 255) =>
        LET n == Len(session.arg)
            pad == IF (n + 1) % 2 = 1 THEN 1 ELSE 0
        IN /\ pc = "returned"
           /\ Len(ret) = 1 + n + pad
           /\ ret[1] = n
           /\ SubSeq(ret, 2, n + 1) = session.arg
           /\ pad = 1 => ret[Len(ret)] = 0
           /\ Len(ret) % 2 = 0

\* a string of 254 bytes was padded to 256 bytes
C17_Witness ==
    /\ Made("pstring") /\ pc = "returned"
    /\ Len(session.arg) = 254 /\ Len(ret) = 256 /\ ret[256] = 0

\* the signed 16-bit big-endian value after byte p (0-based) of out
Signed16(out, p) ==
    LET u == Unsigned(out, p, 2) IN IF u >= 32768 THEN u - 65536 ELSE u

\* the chunks found by walking out from byte p: tag, declared length, body,
\* one pad byte if the length is odd; "end" is where the walk stops, -1 when
\* a chunk runs past the end of out
RECURSIVE Walk(_, _, _)
Walk(out, p, found) ==
    IF p = Len(out) THEN [chunks |-> found, end |-> p]
    ELSE IF p + 8 > Len(out) THEN [chunks |-> found, end |-> -1]
    ELSE LET L == Unsigned(out, p + 4, 4)
             next == p + 8 + L + (L % 2)
         IN IF next > Len(out) THEN [chunks |-> found, end |-> -1]
            ELSE Walk(out, next,
                      Append(found, [tag |-> SubSeq(out, p + 1, p + 4),
                                     body |-> SubSeq(out, p + 9, p + 8 + L)]))

\* the ten bytes of 22050.0 in the extended format
Rate22050 == <<64, 13, 172, 68, 0, 0, 0, 0, 0, 0>>

\* out is the container of the payload and the codebook: three chunks COMM,
\* APPL, SSND up to the end of out, carrying the rate, the codebook and the
\* payload
RoundTrip(out, payload, order, npredictors, table) ==
    LET w == Walk(out, 12, <<>>)
    IN /\ w.end = Len(out)
       /\ [i \in 1..Len(w.chunks) |-> w.chunks[i].tag] = <<COMM, APPL, SSND>>
       /\ LET comm == w.chunks[1].body
              appl == w.chunks[2].body
              ssnd == w.chunks[3].body
          IN /\ SubSeq(comm, 9, 18) = Rate22050
             /\ Len(appl) = 22 + 2 * Len(table)
             /\ Signed16(appl, 18) = order
             /\ Signed16(appl, 20) = npredictors
             /\ \A k \in 1..Len(table) : Signed16(appl, 20 + 2 * k) = table[k]
             /\ SubSeq(ssnd, 1, 8) = <<0, 0, 0, 0, 0, 0, 0, 0>>
             /\ SubSeq(ssnd, 9, Len(ssnd)) = payload

\* the chunk list of a FormAIFCChunk is the three chunks of one sound
SoundChunks(l) ==
    /\ Len(l) = 3
    /\ l[1].cls = "CommonChunk" /\ l[1].compression_type = VAPC
    /\ l[1].sample_rate = Double22050
    /\ l[2].cls = "VadpcmCodesChunk"
    /\ l[3].cls = "SoundDataChunk" /\ l[3].offset = 0 /\ l[3].block_size = 0

\* a codebook of the container: its table has 16 * order * npredictors bytes
\* and its numbers fit the chunk's 16-bit fields
Codebook(order, npredictors, table) ==
    /\ 2 * Len(table) = order * npredictors * 16
    /\ order \in -32768..32767 /\ npredictors \in 0..32767
    /\ \A k \in 1..Len(table) : table[k] \in -32768..32767

\* C18: for every payload and every codebook that satisfies the size rule,
\* walking the encoded container from byte 12 by (tag, declared length, body,
\* one pad byte if the length is odd) finds exactly COMM, APPL, SSND and ends
\* at the end of the output; the SSND body after its two zero words is the
\* payload, the APPL body carries the order, predictor count and table, and
\* the COMM body carries the 10 sample-rate bytes.
C18_RoundTrip ==
    /\ (Made("FormAIFCChunk.serialize") /\ SoundChunks(session.arg)
        /\ Codebook(session.arg[2].order, session.arg[2].nEntries,
                    session.arg[2].tableData)) =>
          /\ pc = "returned"
          /\ RoundTrip(ret, session.arg[3].soundData, session.arg[2].order,
                       session.arg[2].nEntries, session.arg[2].tableData)
    /\ (Made("process_pair")
        /\ Codebook(session.arg.book.order, session.arg.book.npredictors,
                    session.arg.book.book)) =>
          /\ pc = "returned"
          /\ RoundTrip(ret, session.arg.data, session.arg.book.order,
                       session.arg.book.npredictors, session.arg.book.book)

\* a container with an odd payload and a codebook of order 2 with 4
\* predictors was encoded
C18_Witness ==
    /\ Made("FormAIFCChunk.serialize") /\ pc = "returned"
    /\ SoundChunks(session.arg)
    /\ session.arg[2].order = 2 /\ session.arg[2].nEntries = 4
    /\ Len(session.arg[3].soundData) = 3
    /\ Len(Walk(ret, 12, <<>>).chunks) = 3

\* the sign, biased exponent and mantissa bits of a double
SignOf(f64) == f64[Width - 63]
ExponentOf(f64) == IntOf(SubSeq(f64, Width - 62, Width - 52))
MantissaOf(f64) == SubSeq(f64, Width - 51, Width)

\* C19: for every double with sign s, biased exponent e and mantissa m,
\* serialize_f80 returns 10 zero bytes for +0, 0x80 and 9 zero bytes for -0,
\* raises when e = 0 and m # 0 (denormal) or e = 0x7FF (infinity, NaN), and
\* otherwise returns the big-endian 16-bit field s * 2^15 + (e - 1023 + 16383)
\* followed by the 64-bit field 2^63 + m * 2^11; for 22050 the 16-bit field
\* is 0x400D.
C19_ExtendedFloat ==
    Made("serialize_f80") =>
        LET s == SignOf(session.arg)
            e == ExponentOf(session.arg)
            m == MantissaOf(session.arg)
            zero == [i \in 1..52 |-> 0]
        IN /\ (e = 0 /\ m = zero) =>
                 /\ pc = "returned"
                 /\ ret = <<128 * s>> \o [i \in 1..9 |-> 0]
           /\ ((e = 0 /\ m # zero) \/ e = 2047) =>
                 pc = "raised" /\ err # "" /\ ret = None
           /\ (e \in 1..2046) =>
                 /\ pc = "returned"
                 /\ Len(ret) = 10
                 /\ Unsigned(ret, 0, 2) = s * 32768 + (e - 1023 + 16383)
                 /\ SubSeq(ret, 3, 10)
                      = BytesOfBits(<<1>> \o m \o [i \in 1..11 |-> 0])
           /\ session.arg = Double22050 => Unsigned(ret, 0, 2) = 16397

\* 22050.0 was encoded
C19_Witness ==
    /\ Made("serialize_f80") /\ pc = "returned"
    /\ session.arg = Double22050
    /\ ret = Rate22050

====
